---- MODULE Spec2Model ----
(***************************************************************************)
(* Model of the Finnish company search client (Geddu/procountor):          *)
(*   src/src/api/prhApi.ts            formatSearchParams, transformResponse,*)
(*                                    fetchCompanies                       *)
(*   src/src/hooks/useCompanies.ts    the query hook around fetchCompanies  *)
(*   src/src/App.tsx                  the UI shell's criteria / result pair *)
(*   src/src/components/CompanySearch.tsx   the validated search form       *)
(*   src/unnamed/part_000             CompanyResults (pagination, rows)     *)
(*                                                                         *)
(* JavaScript strings are TLA+ strings (Len, SubSeq and \o act on them).    *)
(* A SearchCriteria object is a function from the keys that hold a defined  *)
(* value to those values; a key holding undefined is a key that is absent.  *)
(* Loosely typed JSON values are tagged records, see the JSON section.      *)
(***************************************************************************)
EXTENDS Integers, Sequences, FiniteSets, TLC

VARIABLES
    fmtParams,      \* formatSearchParams: the criteria it is called with
    fmtResult,      \* formatSearchParams: what it returned (NotCalled before)
    trData,         \* transformResponse: the upstream payload
    trPage,         \* transformResponse: the page argument (Undefined: omitted)
    trMaxResults,   \* transformResponse: the page size argument
    trResult,       \* transformResponse: what it returned (NotCalled before)
    rcObject,       \* one upstream company object
    rcRuns,         \* the transformResponse calls made with rcObject in the batch
    fcParams,       \* fetchCompanies: the criteria it is called with
    fcPc,           \* fetchCompanies: "idle", "awaitFetch", "awaitJson", "settled"
    fcRequest,      \* fetchCompanies: the query parameters of the request sent
    fcResponse,     \* fetchCompanies: what came back from the network
    fcSettled,      \* fetchCompanies: how its promise settled
    formLocation,   \* CompanySearch: the location field
    formBusinessId, \* CompanySearch: the business ID field
    formDateStart,  \* CompanySearch: registrationDateStart (a date or Null)
    formDateEnd,    \* CompanySearch: registrationDateEnd (a date or Null)
    formErrors,     \* CompanySearch: the errors state
    formLastSubmit, \* what the last handleSubmit saw and did, NotCalled once
                    \* a field has changed since (or before any submission)
    mounted,        \* App: the component is mounted
    searchParams,   \* App: the searchParams state (the current criteria)
    selectedCompany,\* App: the selectedCompany state (a record or Null)
    queries,        \* the query cache: query key (criteria) -> query state
    requests,       \* the criteria of every request sent to the upstream API
    searches,       \* how many times the criteria have been changed
    refetches       \* how many times a stale query has been fetched again

fmtVars == <<fmtParams, fmtResult>>

trVars == <<trData, trPage, trMaxResults, trResult>>

rcVars == <<rcObject, rcRuns>>

fcVars == <<fcParams, fcPc, fcRequest, fcResponse, fcSettled>>

formFields == <<formLocation, formBusinessId, formDateStart, formDateEnd>>

formVars == <<formFields, formErrors, formLastSubmit>>

appVars ==
    <<mounted, searchParams, selectedCompany, queries, requests, searches, refetches>>

vars == <<fmtVars, trVars, rcVars, fcVars, formVars, appVars>>

\* ------------------------------------------------------------------ bounds

\* Largest small page index of the sampled criteria (0..MaxPage).
MaxPage == 2

\* Longest sampled `companies` sequence of an upstream payload.
MaxBatch == 2

\* How many times the user changes the criteria (searches and page changes).
MaxSearches == 2

\* How many times the network comes back while stale data is on display.
MaxRefetches == 1

\* How many times one upstream object is fed to transformResponse.
MaxRuns == 2

\* ----------------------------------------------------------- shared values

\* Marks a result slot before the operation has run.
NotCalled == [notCalled |-> TRUE]

\* The object literal {} that formatSearchParams and the form start from.
EmptyObject == << >>

\* ------------------------------------------------------- string primitives

Digits == <<"0", "1", "2", "3", "4", "5", "6", "7", "8", "9">>

DigitChars == {Digits[i] : i \in 1..10}

\* s.charAt(i - 1)
CharAt(s, i) == SubSeq(s, i, i)

\* String(n) for a non-negative integer n: its decimal digits.
RECURSIVE NumberToString(_)
NumberToString(n) ==
    IF n < 10 THEN Digits[n + 1]
    ELSE NumberToString(n \div 10) \o Digits[(n % 10) + 1]

\* ------------------------------------------------------------ JSON values

(* A value of the upstream payload (the result of response.json()) is one   *)
(* of: Undefined (a key that is absent), Null, Str(s), Num(n), Arr(seq) or  *)
(* Obj(f), f a function from the object's keys to values.                   *)
Undefined == [undef |-> TRUE]

Null == [null |-> TRUE]

Str(s) == [str |-> s]

Num(n) == [num |-> n]

Arr(elems) == [arr |-> elems]

Obj(f) == [obj |-> f]

IsStr(v) == "str" \in DOMAIN v

IsNum(v) == "num" \in DOMAIN v

IsArr(v) == "arr" \in DOMAIN v

IsObj(v) == "obj" \in DOMAIN v

\* v is null or undefined: a property read on it raises a TypeError.
Nullish(v) == v = Undefined \/ v = Null

\* typeof v === "string"
TypeofString(v) == IsStr(v)

\* typeof v === "object" (null included, as in JavaScript)
TypeofObject(v) == IsObj(v) \/ IsArr(v) \/ v = Null

\* The truthiness JavaScript gives v in `if (v)`, `v && ..`, `v || ..`, `!v`.
Truthy(v) ==
    CASE IsStr(v) -> v.str # ""
      [] IsNum(v) -> v.num # 0
      [] IsArr(v) -> TRUE
      [] IsObj(v) -> TRUE
      [] OTHER -> FALSE

\* `v.k` for a v that is not nullish; primitives and arrays have no such key.
Get(v, k) ==
    IF IsObj(v) /\ k \in DOMAIN v.obj THEN v.obj[k] ELSE Undefined

\* `v[0]`: the first element of an array, the first character of a string.
First(v) ==
    CASE IsArr(v) /\ Len(v.arr) > 0 -> v.arr[1]
      [] IsStr(v) /\ Len(v.str) > 0 -> Str(CharAt(v.str, 1))
      [] OTHER -> Get(v, "0")

\* `v.length > 0`: only arrays and strings have a length.
HasElements(v) ==
    CASE IsArr(v) -> Len(v.arr) > 0
      [] IsStr(v) -> Len(v.str) > 0
      [] OTHER -> FALSE

\* The order in which the sampled objects list their keys (JSON.stringify
\* writes an object's keys in insertion order).
KeyOrder ==
    <<"value", "id", "registrationDate", "name", "year", "text", "language">>

RECURSIVE JoinStrings(_, _)
JoinStrings(strs, sep) ==
    IF Len(strs) = 0 THEN ""
    ELSE IF Len(strs) = 1 THEN strs[1]
    ELSE strs[1] \o sep \o JoinStrings(Tail(strs), sep)

\* String(v), also the conversion of `${v}`.
RECURSIVE JsString(_)
JsString(v) ==
    CASE IsStr(v) -> v.str
      [] IsNum(v) -> NumberToString(v.num)
      [] IsArr(v) ->
            JoinStrings([i \in 1..Len(v.arr) |->
                            IF Nullish(v.arr[i]) THEN "" ELSE JsString(v.arr[i])],
                        ",")
      [] IsObj(v) -> "[object Object]"
      [] v = Null -> "null"
      [] OTHER -> "undefined"

\* The keys of KeyOrder, from position i on, that object f defines.
RECURSIVE KeysFrom(_, _)
KeysFrom(f, i) ==
    IF i > Len(KeyOrder) THEN << >>
    ELSE IF KeyOrder[i] \in DOMAIN f /\ f[KeyOrder[i]] # Undefined
         THEN <<KeyOrder[i]>> \o KeysFrom(f, i + 1)
         ELSE KeysFrom(f, i + 1)

\* JSON.stringify(v) for a defined v.
RECURSIVE JsonStringify(_)
JsonStringify(v) ==
    CASE IsStr(v) -> "\"" \o v.str \o "\""
      [] IsNum(v) -> NumberToString(v.num)
      [] IsArr(v) ->
            "[" \o JoinStrings([i \in 1..Len(v.arr) |->
                                   IF v.arr[i] = Undefined THEN "null"
                                   ELSE JsonStringify(v.arr[i])], ",") \o "]"
      [] IsObj(v) ->
            LET keys == KeysFrom(v.obj, 1)
            IN  "{" \o JoinStrings([i \in 1..Len(keys) |->
                                       "\"" \o keys[i] \o "\":"
                                            \o JsonStringify(v.obj[keys[i]])],
                                   ",") \o "}"
      [] OTHER -> "null"

\* s.includes(sub)
Includes(s, sub) ==
    \E i \in 1..(Len(s) - Len(sub) + 1) : SubSeq(s, i, i + Len(sub) - 1) = sub

WhiteSpace == {" ", "\t", "\n", "\r"}

\* s.trim()
RECURSIVE TrimStart(_)
TrimStart(s) ==
    IF Len(s) > 0 /\ CharAt(s, 1) \in WhiteSpace
    THEN TrimStart(SubSeq(s, 2, Len(s)))
    ELSE s

RECURSIVE TrimEnd(_)
TrimEnd(s) ==
    IF Len(s) > 0 /\ CharAt(s, Len(s)) \in WhiteSpace
    THEN TrimEnd(SubSeq(s, 1, Len(s) - 1))
    ELSE s

Trim(s) == TrimEnd(TrimStart(s))

\* ------------------------------------------------------ formatSearchParams

OptionalKeys ==
    {"businessId", "location", "registrationDateStart", "registrationDateEnd"}

\* `params.k` is truthy: the key holds a defined, non-empty string.
IsSet(params, k) == k \in DOMAIN params /\ params[k] # ""

\* `params.page || 0`
PageOrZero(params) == IF "page" \in DOMAIN params THEN params.page ELSE 0

\* `if (params.k) formattedParams.k = params.k`
CopyIfSet(formatted, params, k) ==
    IF IsSet(params, k) THEN (k :> params[k]) @@ formatted ELSE formatted

formatSearchParamsNoPageShift(params) ==
    LET f1 == CopyIfSet(EmptyObject, params, "businessId")
        f2 == CopyIfSet(f1, params, "location")
        f3 == CopyIfSet(f2, params, "registrationDateStart")
        f4 == CopyIfSet(f3, params, "registrationDateEnd")
        f5 == ("totalResults" :> "true") @@ f4
    IN  ("page" :> NumberToString(PageOrZero(params))) @@ f5

formatSearchParams(params) ==
    LET f1 == CopyIfSet(EmptyObject, params, "businessId")
        f2 == CopyIfSet(f1, params, "location")
        f3 == CopyIfSet(f2, params, "registrationDateStart")
        f4 == CopyIfSet(f3, params, "registrationDateEnd")
        f5 == ("totalResults" :> "true") @@ f4
    IN  ("page" :> NumberToString(PageOrZero(params) + 1)) @@ f5

\* ------------------------------------------------------- transformResponse

BASE_URL == "https://avoindata.prh.fi/opendata-ytj-api/v3"

\* What a call leaves behind when an exception escapes it.
Threw == [threw |-> "TypeError"]

\* IsCurrentFinnishName without the end date test.
IsCurrentFinnishNameAnyDate(name) == Get(name, "language") = Str("FI")

\* `(name) => name.language === "FI" && !name.endDate`
IsCurrentFinnishName(name) ==
    Get(name, "language") = Str("FI") /\ ~Truthy(Get(name, "endDate"))

\* IsCurrentAddress accepting every address, ended ones included.
IsCurrentAddressAny(address) == TRUE

\* `(address) => !address.endDate`
IsCurrentAddress(address) == ~Truthy(Get(address, "endDate"))

\* The verdict of the find callback of `key` ("names" or "addresses") on e.
Found(key, e) ==
    IF key = "names" THEN IsCurrentFinnishName(e) ELSE IsCurrentAddress(e)

\* `arr.find(callback)` raises at the first element the callback cannot read: the
\* callback reads a property of the element, which fails on null. It stops at the
\* first element it accepts. The result is the position of the element found,
\* 0 for none, -1 for raised.
RECURSIVE FindFrom(_, _, _)
FindFrom(elems, i, key) ==
    IF i > Len(elems) THEN 0
    ELSE IF Nullish(elems[i]) THEN -1
    ELSE IF Found(key, elems[i]) THEN i
    ELSE FindFrom(elems, i + 1, key)

\* `result[key]?.find(..)` raises: the value is neither nullish nor an array (it
\* has no find), or the callback raises.
FindRaises(result, key) ==
    LET v == Get(result, key)
    IN  /\ ~Nullish(v)
        /\ \/ ~IsArr(v)
           \/ FindFrom(v.arr, 1, key) = -1

\* The value of `result[key]?.find(..)` when it does not raise.
FindValue(result, key) ==
    LET v == Get(result, key)
    IN  IF Nullish(v) THEN Undefined
        ELSE LET i == FindFrom(v.arr, 1, key)
             IN  IF i > 0 THEN v.arr[i] ELSE Undefined

\* `x?.k`
OptGet(x, k) == IF Nullish(x) THEN Undefined ELSE Get(x, k)

\* `a || b`
OrElse(a, b) == IF Truthy(a) THEN a ELSE b

\* Lines 171-180: the display name.
primaryName(result) ==
    LET names == Get(result, "names")
        finnishName == FindValue(result, "names")
    IN  OrElse(OptGet(finnishName, "name"),
               IF Truthy(names) /\ HasElements(names)
               THEN Str(JsString(OrElse(OptGet(First(names), "name"), Str(""))))
               ELSE Str(""))

\* Lines 182-185: the address the location is built from.
primaryAddress(result) == FindValue(result, "addresses")

\* The fallback identifier of line 205, 211 and 215.
PlaceholderId(index) == "company-" \o NumberToString(index)

\* businessIdStr probing `id` before `value`.
businessIdStrIdFirst(result, index) ==
    LET bid == Get(result, "businessId")
    IN  IF TypeofString(bid) THEN bid.str
        ELSE IF Truthy(bid)
        THEN IF TypeofObject(bid)
             THEN IF Truthy(Get(bid, "id")) /\ TypeofString(Get(bid, "id"))
                  THEN Get(bid, "id").str
                  ELSE IF Truthy(Get(bid, "value")) /\ TypeofString(Get(bid, "value"))
                  THEN Get(bid, "value").str
                  ELSE PlaceholderId(index)
             ELSE JsString(bid)
        ELSE PlaceholderId(index)

\* Lines 187-216: the identifier.
businessIdStr(result, index) ==
    LET bid == Get(result, "businessId")
    IN  IF TypeofString(bid) THEN bid.str
        ELSE IF Truthy(bid)
        THEN IF TypeofObject(bid)
             THEN IF Truthy(Get(bid, "value")) /\ TypeofString(Get(bid, "value"))
                  THEN Get(bid, "value").str
                  ELSE IF Truthy(Get(bid, "id")) /\ TypeofString(Get(bid, "id"))
                  THEN Get(bid, "id").str
                  ELSE PlaceholderId(index)
             ELSE JsString(bid)
        ELSE PlaceholderId(index)

\* registrationDateStr probing the nested `registrationDate` before `value`.
registrationDateStrNestedFirst(result) ==
    LET regDate == Get(result, "registrationDate")
    IN  IF TypeofString(regDate) THEN regDate.str
        ELSE IF Truthy(regDate)
        THEN IF /\ Truthy(Get(regDate, "registrationDate"))
                /\ TypeofString(Get(regDate, "registrationDate"))
             THEN Get(regDate, "registrationDate").str
             ELSE IF Truthy(Get(regDate, "value")) /\ TypeofString(Get(regDate, "value"))
             THEN Get(regDate, "value").str
             ELSE LET text == JsonStringify(regDate)
                  IN  IF text = "{}" \/ Includes(text, "[object Object]")
                      THEN ""
                      ELSE text
        ELSE ""

\* Lines 218-249: the registration date.
registrationDateStr(result) ==
    LET regDate == Get(result, "registrationDate")
    IN  IF TypeofString(regDate) THEN regDate.str
        ELSE IF Truthy(regDate)
        THEN IF Truthy(Get(regDate, "value")) /\ TypeofString(Get(regDate, "value"))
             THEN Get(regDate, "value").str
             ELSE IF /\ Truthy(Get(regDate, "registrationDate"))
                     /\ TypeofString(Get(regDate, "registrationDate"))
             THEN Get(regDate, "registrationDate").str
             ELSE LET text == JsonStringify(regDate)
                  IN  IF text = "{}" \/ Includes(text, "[object Object]")
                      THEN ""
                      ELSE text
        ELSE ""

\* Lines 251-266: the company form.
companyFormStr(result) ==
    LET forms == Get(result, "companyForms")
    IN  IF Truthy(forms) /\ HasElements(forms)
        THEN LET form == First(forms)
             IN  IF TypeofString(form) THEN form.str
                 ELSE IF Truthy(form) /\ TypeofString(Get(form, "name"))
                 THEN Get(form, "name").str
                 ELSE IF Truthy(form) THEN JsonStringify(form)
                 ELSE ""
        ELSE ""

\* Lines 268-273: the location label.
locationStr(result) ==
    LET address == primaryAddress(result)
        postOffices == Get(address, "postOffices")
        office == IF Nullish(postOffices) THEN Undefined ELSE First(postOffices)
    IN  IF Truthy(address)
        THEN Trim(JsString(OrElse(Get(address, "postCode"), Str("")))
                  \o " "
                  \o JsString(OrElse(OptGet(office, "city"), Str(""))))
        ELSE ""

\* Lines 275-276: `result.endDate || ""`, kept as the JSON value it is.
endDateStr(result) == OrElse(Get(result, "endDate"), Str(""))

\* Lines 278-286: the record the try block returns.
CompanyRecord(result, index) ==
    [businessId |-> businessIdStr(result, index),
     name |-> JsString(primaryName(result)),
     registrationDate |-> registrationDateStr(result),
     companyForm |-> companyFormStr(result),
     location |-> locationStr(result),
     endDate |-> endDateStr(result),
     detailsUri |-> BASE_URL \o "/companies/" \o businessIdStr(result, index)]

\* ErrorRecord with the batch position in the display name as well.
ErrorRecordNumbered(index) ==
    [businessId |-> "error-" \o NumberToString(index),
     name |-> "Error processing data " \o NumberToString(index),
     registrationDate |-> "",
     companyForm |-> "",
     location |-> "",
     endDate |-> Str(""),
     detailsUri |-> ""]

\* Lines 289-298: the record the catch block returns.
ErrorRecord(index) ==
    [businessId |-> "error-" \o NumberToString(index),
     name |-> "Error processing data",
     registrationDate |-> "",
     companyForm |-> "",
     location |-> "",
     endDate |-> Str(""),
     detailsUri |-> ""]

\* The try block of lines 170-286 raises: the entry itself is null (the read of
\* result.names fails), or one of the two find calls raises.
TransformRaises(result) ==
    \/ Nullish(result)
    \/ FindRaises(result, "names")
    \/ FindRaises(result, "addresses")

\* Lines 169-300: the map callback, with its try/catch.
transformCompany(result, index) ==
    IF TransformRaises(result) THEN ErrorRecord(index)
    ELSE CompanyRecord(result, index)

\* Math.ceil(total / maxResults) for total >= 0 and maxResults > 0
CeilDiv(total, maxResults) == (total + maxResults - 1) \div maxResults

\* A parameter with a default value: the default replaces undefined.
DefaultTo(arg, default) == IF arg = Undefined THEN default ELSE arg.num

\* EmptyPage forgetting the requested page.
EmptyPageFirstPage(page) ==
    [results |-> << >>, totalResults |-> 0, currentPage |-> 0, totalPages |-> 0]

\* Lines 160-165, and 338-343 of fetchCompanies: the empty ResultPage.
EmptyPage(page) ==
    [results |-> << >>, totalResults |-> 0, currentPage |-> page, totalPages |-> 0]

\* Line 305 and 307: `data.totalResults || companies.length`
TotalOrCount(data, companies) ==
    IF Truthy(Get(data, "totalResults"))
    THEN Get(data, "totalResults").num
    ELSE Len(companies)

\* transformResponse with one try/catch around the whole map instead of one per
\* entry: a single failing entry empties the page.
transformResponseBatchCatch(data, page, maxResults) ==
    LET pageArg == DefaultTo(page, 0)
        maxArg == DefaultTo(maxResults, 100)
        upstream == OptGet(data, "companies")
    IN  IF ~Truthy(data) \/ ~Truthy(upstream) THEN EmptyPage(pageArg)
        ELSE IF ~IsArr(upstream) THEN Threw
        ELSE IF \E i \in 1..Len(upstream.arr) : TransformRaises(upstream.arr[i])
        THEN EmptyPage(pageArg)
        ELSE LET companies ==
                    [i \in 1..Len(upstream.arr) |->
                        CompanyRecord(upstream.arr[i], i - 1)]
             IN  [results |-> companies,
                  totalResults |-> TotalOrCount(data, companies),
                  currentPage |-> pageArg,
                  totalPages |-> CeilDiv(TotalOrCount(data, companies), maxArg)]

\* The entries of `entries` from position i on whose transformation does not
\* raise, each transformed with its own batch position.
RECURSIVE TransformedFrom(_, _)
TransformedFrom(entries, i) ==
    IF i > Len(entries) THEN << >>
    ELSE IF TransformRaises(entries[i]) THEN TransformedFrom(entries, i + 1)
    ELSE <<CompanyRecord(entries[i], i - 1)>> \o TransformedFrom(entries, i + 1)

\* transformResponse leaving out the entries whose transformation raises.
transformResponseDropFailed(data, page, maxResults) ==
    LET pageArg == DefaultTo(page, 0)
        maxArg == DefaultTo(maxResults, 100)
        upstream == OptGet(data, "companies")
    IN  IF ~Truthy(data) \/ ~Truthy(upstream) THEN EmptyPage(pageArg)
        ELSE IF ~IsArr(upstream) THEN Threw
        ELSE LET companies == TransformedFrom(upstream.arr, 1)
             IN  [results |-> companies,
                  totalResults |-> TotalOrCount(data, companies),
                  currentPage |-> pageArg,
                  totalPages |-> CeilDiv(TotalOrCount(data, companies), maxArg)]

\* Lines 153-309. `page` and `maxResults` are Num(n), or Undefined when omitted.
\* The result is a ResultPage, or Threw when `data.companies.map` is not callable.
transformResponse(data, page, maxResults) ==
    LET pageArg == DefaultTo(page, 0)
        maxArg == DefaultTo(maxResults, 100)
        upstream == OptGet(data, "companies")
    IN  IF ~Truthy(data) \/ ~Truthy(upstream) THEN EmptyPage(pageArg)
        ELSE IF ~IsArr(upstream) THEN Threw
        ELSE LET companies ==
                    [i \in 1..Len(upstream.arr) |->
                        transformCompany(upstream.arr[i], i - 1)]
             IN  [results |-> companies,
                  totalResults |-> TotalOrCount(data, companies),
                  currentPage |-> pageArg,
                  totalPages |-> CeilDiv(TotalOrCount(data, companies), maxArg)]

\* ---------------------------------------------------------- fetchCompanies

(* What the network gives back for one request: NetworkError when fetch()    *)
(* rejects, else [status, body], the body being [json |-> value] when it     *)
(* parses as JSON and [text |-> s] when it does not.                         *)
NetworkError == [networkError |-> TRUE]

HttpResponse(status, body) == [status |-> status, body |-> body]

\* `response.ok`: a status in the range 200-299.
ResponseOk(response) == response.status >= 200 /\ response.status <= 299

\* `await response.json()` rejects: the body is not JSON.
JsonRejects(response) == "json" \notin DOMAIN response.body

\* A promise resolved with value v.
Resolved(v) == [resolved |-> v]

\* A promise rejected with error e.
Rejected(e) == [rejected |-> e]

\* fetchCompaniesCatch letting the error through.
fetchCompaniesRethrow(params) == Rejected("Error")

\* Lines 336-344: the catch block.
fetchCompaniesCatch(params) == Resolved(EmptyPage(PageOrZero(params)))

\* Lines 324-345: how the promise of fetchCompanies(params) settles when the
\* network gives back `response`.
fetchCompaniesSettle(params, response) ==
    IF response = NetworkError THEN fetchCompaniesCatch(params)
    ELSE IF ~ResponseOk(response) THEN fetchCompaniesCatch(params)
    ELSE IF JsonRejects(response) THEN fetchCompaniesCatch(params)
    ELSE LET page == transformResponse(response.body["json"],
                                       Num(PageOrZero(params)), Num(100))
         IN  IF page = Threw THEN fetchCompaniesCatch(params)
             ELSE Resolved(page)

\* ----------------------------------------------------------- CompanySearch

LowerCase == "abcdefghijklmnopqrstuvwxyz"

UpperCase == "ABCDEFGHIJKLMNOPQRSTUVWXYZ"

\* The character class [a-zA-Z].
AsciiLetters ==
    {CharAt(LowerCase, i) : i \in 1..Len(LowerCase)}
        \cup {CharAt(UpperCase, i) : i \in 1..Len(UpperCase)}

\* /^\d{7}-\d$/.test(id)
MatchesBusinessIdPattern(id) ==
    /\ Len(id) = 9
    /\ \A i \in 1..7 : CharAt(id, i) \in DigitChars
    /\ CharAt(id, 8) = "-"
    /\ CharAt(id, 9) \in DigitChars

\* /[a-zA-Z]/.test(loc)
MatchesTownNamePattern(loc) ==
    \E i \in 1..Len(loc) : CharAt(loc, i) \in AsciiLetters

\* Lines 40-45.
validateBusinessId(id) == id = "" \/ MatchesBusinessIdPattern(id)

\* Lines 48-54.
validateLocation(loc) ==
    loc = "" \/ (MatchesTownNamePattern(loc) /\ Len(Trim(loc)) > 0)

\* A Dayjs value is [date |-> <<year, month, day>>]; an empty picker is Null.
Date(y, m, d) == [date |-> <<y, m, d>>]

\* a.isBefore(b)
IsBefore(a, b) ==
    \/ a.date[1] < b.date[1]
    \/ a.date[1] = b.date[1] /\ a.date[2] < b.date[2]
    \/ a.date[1] = b.date[1] /\ a.date[2] = b.date[2] /\ a.date[3] < b.date[3]

\* a.isSame(b)
IsSame(a, b) == a.date = b.date

\* Lines 57-64.
validateDateRange(start, end) ==
    start = Null \/ end = Null \/ IsBefore(start, end) \/ IsSame(start, end)

\* n in decimal, padded with zeros to `width` digits.
RECURSIVE ZeroPad(_, _)
ZeroPad(text, width) ==
    IF Len(text) >= width THEN text ELSE ZeroPad("0" \o text, width)

\* d.format("YYYY-MM-DD")
FormatDate(d) ==
    ZeroPad(NumberToString(d.date[1]), 4) \o "-"
        \o ZeroPad(NumberToString(d.date[2]), 2) \o "-"
        \o ZeroPad(NumberToString(d.date[3]), 2)

\* Lines 92-96: hasSearchCriteria.
hasSearchCriteria(loc, id, start, end) ==
    Trim(id) # "" \/ Trim(loc) # "" \/ start # Null \/ end # Null

\* Lines 76-100: newErrors, an object from the failed checks to their messages.
ValidationErrors(loc, id, start, end) ==
    LET e1 == IF id # "" /\ ~validateBusinessId(id)
              THEN "businessId" :> "Invalid business ID format. Expected: 1234567-8"
              ELSE EmptyObject
        e2 == IF loc # "" /\ ~validateLocation(loc)
              THEN "location" :> "Please enter a valid town name (must contain letters)"
              ELSE EmptyObject
        e3 == IF start # Null /\ end # Null /\ ~validateDateRange(start, end)
              THEN "dateRange" :> "Start date must be before or equal to end date"
              ELSE EmptyObject
        e4 == IF ~hasSearchCriteria(loc, id, start, end)
              THEN "form" :> "Please provide at least one search criteria"
              ELSE EmptyObject
    IN  e1 @@ e2 @@ e3 @@ e4

\* Lines 108-119: the criteria handed to onSearch; `x || undefined` and a null
\* date leave the key without a value.
SubmitParams(loc, id, start, end) ==
    (IF Trim(loc) # "" THEN "location" :> Trim(loc) ELSE EmptyObject)
        @@ (IF Trim(id) # "" THEN "businessId" :> Trim(id) ELSE EmptyObject)
        @@ (IF start # Null THEN "registrationDateStart" :> FormatDate(start)
            ELSE EmptyObject)
        @@ (IF end # Null THEN "registrationDateEnd" :> FormatDate(end)
            ELSE EmptyObject)
        @@ ("page" :> 0)
        @@ ("maxResults" :> 100)

\* Lines 102-121: handleSubmit calls onSearch.
SubmitPasses(loc, id, start, end) ==
    DOMAIN ValidationErrors(loc, id, start, end) = {}

\* What handleSubmit saw and did: the fields, the errors it recorded, and the
\* criteria it passed to onSearch (NotCalled when it returned early).
SubmitRecord(loc, id, start, end) ==
    [location |-> loc,
     businessId |-> id,
     start |-> start,
     end |-> end,
     errors |-> ValidationErrors(loc, id, start, end),
     onSearch |-> IF SubmitPasses(loc, id, start, end)
                  THEN [params |-> SubmitParams(loc, id, start, end)]
                  ELSE NotCalled]

\* --------------------------------------------------- useCompanies and App

\* App lines 12-15: the initial searchParams.
InitialSearchParams == ("page" :> 0) @@ ("maxResults" :> 100)

(* The state of one query of the cache, keyed by ["companies", params]:       *)
(*   status    "pending" (no data yet), "success" or "error"                  *)
(*   data      the ResultPage the query function resolved with, or Undefined  *)
(*   fetching  a request of this query is outstanding                         *)
(*   response  what the network gave back to the last request (NotCalled      *)
(*             before the first one has settled)                              *)
(*   fetchedFor  the criteria the query function that produced `data` was     *)
(*             called with (NotCalled before the first one has settled)       *)
NewQuery ==
    [status |-> "pending", data |-> Undefined, fetching |-> TRUE,
     response |-> NotCalled, fetchedFor |-> NotCalled]

\* useCompanies lines 6-13: the hook observes the query of `params`. With
\* enabled: true a query that is not in the cache is created and fetched at once,
\* whatever the criteria hold; one that is in the cache is neither fetched twice
\* at a time nor refetched while it is fresh (staleTime, refetchOnMount: false).
ObservedQueries(cache, params) ==
    IF params \in DOMAIN cache THEN cache ELSE (params :> NewQuery) @@ cache

\* The requests sent once the hook observes the query of `params`.
ObservedRequests(cache, sent, params) ==
    IF params \in DOMAIN cache THEN sent ELSE sent \cup {params}

\* The query function of line 8 has settled: a resolved promise is a success
\* with its value as data, a rejected one raises the error status.
SettledQuery(query, params, response) ==
    LET settled == fetchCompaniesSettle(params, response)
    IN  IF "resolved" \in DOMAIN settled
        THEN [status |-> "success", data |-> settled.resolved, fetching |-> FALSE,
              response |-> response, fetchedFor |-> params]
        ELSE [status |-> "error", data |-> query.data, fetching |-> FALSE,
              response |-> response, fetchedFor |-> query.fetchedFor]

\* App lines 19-23: what useCompanies(searchParams) returns.
HasQuery == mounted /\ searchParams \in DOMAIN queries

searchResults == IF HasQuery THEN queries[searchParams].data ELSE Undefined

loading ==
    /\ HasQuery
    /\ queries[searchParams].status = "pending"
    /\ queries[searchParams].fetching

isError == HasQuery /\ queries[searchParams].status = "error"

\* App lines 44-46: `searchResults?.results || []`
companies == IF searchResults = Undefined THEN << >> ELSE searchResults.results

\* App lines 26-33: handleSearch.
handleSearchParams(params) == ("page" :> 0) @@ params

\* handleChangePageParams keeping nothing but the page and the page size.
handleChangePageParamsPageOnly(params, newPage) ==
    ("page" :> newPage) @@ ("maxResults" :> 100)

\* part_000 lines 87-95: the criteria handleChangePage passes to onPageChange.
handleChangePageParams(params, newPage) == ("page" :> newPage) @@ params

\* part_000 lines 196-203 and 244-251: the pages the pagination buttons lead to,
\* from page `page` of `count` results with `rowsPerPage` rows: the previous page
\* unless on the first, the next unless on the last.
PaginationTargets(count, page, rowsPerPage) ==
    {p \in {page - 1, page + 1} :
        /\ p >= 0
        /\ p <= CeilDiv(count, rowsPerPage) - 1}

\* part_000 lines 167-251: the table and its pagination are rendered whenever
\* there are companies to show.
TableRendered == mounted /\ Len(companies) > 0

\* ---------------------------------------------- sampled SearchCriteria

\* One optional string key: absent, the empty string, or a value.
OptString(k, values) ==
    {EmptyObject, k :> ""} \cup {k :> v : v \in values}

PageSamples == (0..MaxPage) \cup {9, 99}

OptPage == {EmptyObject} \cup {"page" :> p : p \in PageSamples}

OptMaxResults == {EmptyObject, "maxResults" :> 100}

CriteriaSamples ==
    {b @@ l @@ s @@ e @@ p @@ m :
        b \in OptString("businessId", {"1234567-8"}),
        l \in OptString("location", {"Helsinki"}),
        s \in OptString("registrationDateStart", {"2020-01-01"}),
        e \in OptString("registrationDateEnd", {"2021-12-31"}),
        p \in OptPage,
        m \in OptMaxResults}

\* ------------------------------------------- sampled upstream payloads

\* The object f with key k set to v, or without the key when v is Undefined.
With(f, k, v) == IF v = Undefined THEN f ELSE (k :> v) @@ f

\* The shapes of the upstream identifier field.
BusinessIdSamples ==
    {Undefined, Null, Str(""), Str("1234567-8"), Str("company-0"), Str("error-1"),
     Num(0), Num(42), Arr(<< >>), Obj(EmptyObject),
     Obj("value" :> Str("1234567-8")),
     Obj("id" :> Str("X")),
     Obj(("value" :> Str("V")) @@ ("id" :> Str("X"))),
     Obj(("value" :> Str("")) @@ ("id" :> Str("X"))),
     Obj(("value" :> Num(5)) @@ ("id" :> Str("X"))),
     Obj("value" :> Num(5)),
     Obj("id" :> Str(""))}

\* A company as the registry documents it.
FullCompany ==
    Obj([businessId |-> Str("0112038-9"),
         names |-> Arr(<<Obj([name |-> Str("Nokia Oyj"), language |-> Str("FI")])>>),
         registrationDate |-> Str("1896-12-19"),
         companyForms |-> Arr(<<Obj([name |-> Str("OYJ")])>>),
         addresses |-> Arr(<<Obj([postCode |-> Str("02610"),
                                  postOffices |-> Arr(<<Obj([city |-> Str("ESPOO")])>>)])>>),
         endDate |-> Str("")])

\* Entries whose transformation raises: a null entry, names or addresses that are
\* not sequences, and a sequence holding null.
RaisingCompanies ==
    {Null,
     Obj([businessId |-> Str("1234567-8"), names |-> Str("Nokia Oyj")]),
     Obj([businessId |-> Obj("value" :> Str("V")), addresses |-> Num(7)]),
     Obj([names |-> Arr(<<Null>>)])}

CompanySamples ==
    {Obj(With(EmptyObject, "businessId", b)) : b \in BusinessIdSamples}
        \cup {FullCompany}
        \cup RaisingCompanies

\* The shapes of the upstream registrationDate field.
RegistrationDateSamples ==
    {Undefined, Null, Str(""), Str("2020-01-01"), Num(0), Num(2020),
     Arr(<< >>), Arr(<<Str("2020")>>), Obj(EmptyObject),
     Obj("value" :> Str("2020-01-01")),
     Obj("value" :> Str("")),
     Obj(("value" :> Str("")) @@ ("registrationDate" :> Str("2019-05-05"))),
     Obj(("value" :> Num(5)) @@ ("registrationDate" :> Str("2019-05-05"))),
     Obj(("value" :> Str("A")) @@ ("registrationDate" :> Str("B"))),
     Obj("registrationDate" :> Str("2019-05-05")),
     Obj("registrationDate" :> Str("")),
     Obj("registrationDate" :> Obj("value" :> Str("2018-01-01"))),
     Obj("year" :> Num(2020)),
     Obj("text" :> Str("[object Object]")),
     Obj("value" :> Obj(EmptyObject))}

\* One name variant; an Undefined part leaves its key out.
NameVariant(name, language, endDate) ==
    Obj(With(With(With(EmptyObject, "name", name), "language", language),
             "endDate", endDate))

\* The shapes of the upstream names field.
NamesSamples ==
    LET fi == NameVariant(Str("Nokia Oyj"), Str("FI"), Undefined)
        sv == NameVariant(Str("Nokia Abp"), Str("SV"), Undefined)
        old == NameVariant(Str("Vanha Oy"), Str("FI"), Str("2000-01-01"))
    IN  {Undefined, Null, Arr(<< >>),
         Arr(<<fi>>), Arr(<<sv>>), Arr(<<sv, fi>>), Arr(<<sv, old, fi>>),
         Arr(<<sv, old>>), Arr(<<old>>),
         Arr(<<fi, NameVariant(Str("Toinen Oy"), Str("FI"), Undefined)>>),
         Arr(<<sv, NameVariant(Str(""), Str("FI"), Undefined)>>),
         Arr(<<sv, NameVariant(Undefined, Str("FI"), Undefined)>>),
         Arr(<<sv, NameVariant(Null, Str("FI"), Undefined), fi>>),
         Arr(<<NameVariant(Str(""), Str("FI"), Undefined)>>),
         Arr(<<NameVariant(Num(42), Str("FI"), Undefined)>>),
         Arr(<<NameVariant(Num(42), Str("SV"), Undefined)>>),
         Arr(<<NameVariant(Num(0), Str("SV"), Undefined)>>),
         Arr(<<NameVariant(Undefined, Str("SV"), Undefined), fi>>),
         Arr(<<NameVariant(Obj("text" :> Str("x")), Str("FI"), Undefined)>>),
         Arr(<<NameVariant(Str("Nokia Oyj"), Str("FI"), Str(""))>>),
         Arr(<<sv, NameVariant(Str("Nokia Oyj"), Str("FI"), Null)>>),
         Arr(<<NameVariant(Str("pieni"), Str("fi"), Undefined),
               NameVariant(Str("Big"), Str("EN"), Undefined)>>),
         Arr(<<NameVariant(Str("Nokia"), Undefined, Undefined)>>),
         Arr(<<Str("Nokia")>>)}

\* One address; an Undefined part leaves its key out.
Address(postCode, postOffices, endDate) ==
    Obj(With(With(With(EmptyObject, "postCode", postCode), "postOffices", postOffices),
             "endDate", endDate))

PostOffice(city) == Obj("city" :> Str(city))

\* The shapes of the upstream addresses field.
AddressesSamples ==
    LET espoo == Address(Str("02610"), Arr(<<PostOffice("ESPOO")>>), Undefined)
        oulu == Address(Str("90100"), Arr(<<PostOffice("OULU")>>), Undefined)
        left == Address(Str("00100"), Arr(<<PostOffice("HELSINKI")>>),
                        Str("2010-01-01"))
    IN  {Undefined, Null, Arr(<< >>),
         Arr(<<espoo>>), Arr(<<left>>), Arr(<<left, espoo>>), Arr(<<espoo, left>>),
         Arr(<<espoo, oulu>>), Arr(<<left, left, oulu, espoo>>),
         Arr(<<Obj(EmptyObject)>>),
         Arr(<<left, Obj(EmptyObject), espoo>>),
         Arr(<<Address(Str("02610"), Undefined, Undefined)>>),
         Arr(<<Address(Undefined, Arr(<<PostOffice("ESPOO")>>), Undefined)>>),
         Arr(<<Address(Str("02610"), Arr(<< >>), Undefined)>>),
         Arr(<<Address(Str("02610"), Arr(<<Null>>), Undefined)>>),
         Arr(<<Address(Str("02610"), Null, Undefined)>>),
         Arr(<<Address(Str("02610"),
                       Arr(<<PostOffice("ESPOO"), PostOffice("ESBO")>>), Undefined)>>),
         Arr(<<Address(Str("02610"), Arr(<<Obj(EmptyObject), PostOffice("ESPOO")>>),
                       Undefined)>>),
         Arr(<<Address(Str(" 02610 "), Arr(<<PostOffice(" ESPOO ")>>), Undefined)>>),
         Arr(<<Address(Num(2610), Arr(<<PostOffice("ESPOO")>>), Undefined)>>),
         Arr(<<Address(Str("02610"), Arr(<<PostOffice("ESPOO")>>), Str(""))>>),
         Arr(<<left, Address(Str("02610"), Arr(<<PostOffice("ESPOO")>>), Null)>>)}

\* Upstream company objects, one field varied at a time, and the ones above.
RecordSamples ==
    {Obj(With(EmptyObject, "registrationDate", r)) : r \in RegistrationDateSamples}
        \cup {Obj(With("businessId" :> Str("1234567-8"), "names", n)) :
                  n \in NamesSamples}
        \cup {Obj(With("businessId" :> Str("1234567-8"), "addresses", a)) :
                  a \in AddressesSamples}
        \cup CompanySamples

\* The other entries of a batch.
NeighbourSamples == {FullCompany, Null}

\* All sequences over S of length at most n.
RECURSIVE SeqsUpTo(_, _)
SeqsUpTo(S, n) ==
    IF n = 0 THEN {<< >>}
    ELSE LET shorter == SeqsUpTo(S, n - 1)
         IN  shorter \cup {Append(q, x) : q \in {r \in shorter : Len(r) = n - 1}, x \in S}

TotalResultsSamples == {Undefined, Num(0), Num(1), Num(250)}

\* Payloads that carry a `companies` sequence.
BatchPayloads ==
    {Obj(With("companies" :> Arr(batch), "totalResults", t)) :
        batch \in SeqsUpTo(CompanySamples, MaxBatch), t \in TotalResultsSamples}

\* Payloads without one: no payload, no key, a null or a non-sequence value.
MalformedPayloads ==
    {Undefined, Null, Num(5), Arr(<< >>), Obj(EmptyObject),
     Obj("totalResults" :> Num(250)),
     Obj(("companies" :> Null) @@ ("totalResults" :> Num(250))),
     Obj(("companies" :> Num(42)) @@ ("totalResults" :> Num(250))),
     Obj("companies" :> Obj(EmptyObject))}

\* <<page, maxResults>> arguments: omitted (the defaults), and given.
ArgumentSamples ==
    {<<Undefined, Undefined>>, <<Num(0), Num(100)>>, <<Num(MaxPage), Num(7)>>}

\* ------------------------------------------------------------ idle parts

\* Each specification below drives one part of the program; the variables of
\* the other parts rest at these values.
FetchIdle ==
    /\ fcParams = EmptyObject
    /\ fcPc = "idle"
    /\ fcRequest = NotCalled
    /\ fcResponse = NotCalled
    /\ fcSettled = NotCalled

FormIdle ==
    /\ formLocation = ""
    /\ formBusinessId = ""
    /\ formDateStart = Null
    /\ formDateEnd = Null
    /\ formErrors = EmptyObject
    /\ formLastSubmit = NotCalled

AppIdle ==
    /\ mounted = FALSE
    /\ searchParams = InitialSearchParams
    /\ selectedCompany = Null
    /\ queries = EmptyObject
    /\ requests = {}
    /\ searches = 0
    /\ refetches = 0

FormatIdle == fmtParams = EmptyObject /\ fmtResult = NotCalled

TransformIdle ==
    /\ trData = Undefined
    /\ trPage = Undefined
    /\ trMaxResults = Undefined
    /\ trResult = NotCalled

RecordIdle == rcObject = Undefined /\ rcRuns = << >>

\* ------------------------------------------- specification: the formatter

InitFormat ==
    /\ fmtParams \in CriteriaSamples
    /\ fmtResult = NotCalled
    /\ TransformIdle
    /\ RecordIdle
    /\ FetchIdle
    /\ FormIdle
    /\ AppIdle

FormatSearchParams ==
    /\ fmtResult = NotCalled
    /\ fmtResult' = formatSearchParams(fmtParams)
    /\ UNCHANGED <<fmtParams, trVars, rcVars, fcVars, formVars, appVars>>

NextFormat == FormatSearchParams

SpecFormat == InitFormat /\ [][NextFormat]_vars

\* ------------------------------------------ specification: the normalizer

InitTransform ==
    /\ trData \in BatchPayloads \cup MalformedPayloads
    /\ \E args \in ArgumentSamples : trPage = args[1] /\ trMaxResults = args[2]
    /\ trResult = NotCalled
    /\ RecordIdle
    /\ FormatIdle
    /\ FetchIdle
    /\ FormIdle
    /\ AppIdle

TransformResponse ==
    /\ trResult = NotCalled
    /\ trResult' = transformResponse(trData, trPage, trMaxResults)
    /\ UNCHANGED <<trData, trPage, trMaxResults, fmtVars, rcVars, fcVars, formVars, appVars>>

NextTransform == TransformResponse

SpecTransform == InitTransform /\ [][NextTransform]_vars

\* ------------------------------- specification: one object, several batches

InitRecord ==
    /\ rcObject \in RecordSamples
    /\ rcRuns = << >>
    /\ FormatIdle
    /\ TransformIdle
    /\ FetchIdle
    /\ FormIdle
    /\ AppIdle

\* One more call of transformResponse, with rcObject at position Len(before) of
\* the `companies` sequence.
TransformBatch ==
    /\ Len(rcRuns) < MaxRuns
    /\ \E before \in SeqsUpTo(NeighbourSamples, MaxBatch - 1) :
       \E after \in SeqsUpTo(NeighbourSamples, MaxBatch - 1 - Len(before)) :
          LET data == Obj("companies" :> Arr(before \o <<rcObject>> \o after))
          IN  rcRuns' = Append(rcRuns,
                               [data |-> data,
                                index |-> Len(before),
                                result |-> transformResponse(data, Undefined,
                                                             Undefined)])
    /\ UNCHANGED <<rcObject, fmtVars, trVars, fcVars, formVars, appVars>>

NextRecord == TransformBatch

SpecRecord == InitRecord /\ [][NextRecord]_vars

\* ------------------------------------------ specification: the orchestrator

\* Criteria fetchCompanies is called with: none set, some set, page unset.
FetchCriteriaSamples ==
    {b @@ l @@ p @@ m :
        b \in OptString("businessId", {"1234567-8"}),
        l \in {EmptyObject, "location" :> "Helsinki"},
        p \in {EmptyObject} \cup {"page" :> n : n \in 0..MaxPage},
        m \in {"maxResults" :> 100}}

StatusSamples == {200, 204, 404, 500}

\* Response bodies: JSON payloads (well-formed and malformed) and non-JSON text.
BodySamples ==
    {[json |-> d] : d \in (MalformedPayloads \ {Undefined})}
        \cup {[json |-> Obj(With("companies" :> Arr(batch), "totalResults", t))] :
                 batch \in SeqsUpTo({FullCompany, Null, Obj(EmptyObject)}, 1),
                 t \in {Undefined, Num(250)}}
        \cup {[text |-> "<html>Bad Gateway</html>"], [text |-> ""]}

InitFetch ==
    /\ fcParams \in FetchCriteriaSamples
    /\ fcPc = "idle"
    /\ fcRequest = NotCalled
    /\ fcResponse = NotCalled
    /\ fcSettled = NotCalled
    /\ FormatIdle
    /\ TransformIdle
    /\ RecordIdle
    /\ FormIdle
    /\ AppIdle

\* Lines 315-326: build the query and send the request.
FetchCompaniesCall ==
    /\ fcPc = "idle"
    /\ fcRequest' = formatSearchParams(fcParams)
    /\ fcPc' = "awaitFetch"
    /\ UNCHANGED <<fcParams, fcResponse, fcSettled>>

\* Line 326: fetch() rejects (no connection, DNS, CORS).
FetchRejects ==
    /\ fcPc = "awaitFetch"
    /\ fcResponse' = NetworkError
    /\ fcSettled' = fetchCompaniesSettle(fcParams, NetworkError)
    /\ fcPc' = "settled"
    /\ UNCHANGED <<fcParams, fcRequest>>

\* Lines 326-332: fetch() resolves with a response; a non-success status is
\* thrown and caught at once, a success goes on to parse the body.
FetchResponds ==
    /\ fcPc = "awaitFetch"
    /\ \E status \in StatusSamples, body \in BodySamples :
          LET response == HttpResponse(status, body)
          IN  /\ fcResponse' = response
              /\ IF ResponseOk(response)
                 THEN fcPc' = "awaitJson" /\ UNCHANGED fcSettled
                 ELSE /\ fcPc' = "settled"
                      /\ fcSettled' = fetchCompaniesSettle(fcParams, response)
    /\ UNCHANGED <<fcParams, fcRequest>>

\* Lines 332-335: response.json() settles, and the payload is normalized.
JsonSettles ==
    /\ fcPc = "awaitJson"
    /\ fcSettled' = fetchCompaniesSettle(fcParams, fcResponse)
    /\ fcPc' = "settled"
    /\ UNCHANGED <<fcParams, fcRequest, fcResponse>>

NextFetch ==
    \/ (FetchCompaniesCall /\ UNCHANGED <<fmtVars, trVars, rcVars, formVars, appVars>>)
    \/ (FetchRejects /\ UNCHANGED <<fmtVars, trVars, rcVars, formVars, appVars>>)
    \/ (FetchResponds /\ UNCHANGED <<fmtVars, trVars, rcVars, formVars, appVars>>)
    \/ (JsonSettles /\ UNCHANGED <<fmtVars, trVars, rcVars, formVars, appVars>>)

SpecFetch == InitFetch /\ [][NextFetch]_vars

\* ------------------------------------------------ specification: the form

\* What a user may type into the business ID field.
BusinessIdInputs ==
    {"", "1234567-8", "12345678", "1234567-89", "123456-7", "1234567-X",
     " 1234567-8", "  "}

\* What a user may type into the location field.
LocationInputs == {"", "Helsinki", " Oulu ", "00100", "   ", "ää", "Ii 2"}

\* What a user may pick in a date field.
DateInputs == {Null, Date(2020, 1, 5), Date(2020, 12, 31), Date(2021, 1, 1)}

\* The four onChange handlers of lines 143-186, each followed by the effect of
\* lines 67-70 that clears the errors when a field has changed.
SetLocation(inputs) ==
    \E v \in inputs :
        /\ v # formLocation
        /\ formLocation' = v
        /\ formErrors' = EmptyObject
        /\ formLastSubmit' = NotCalled
        /\ UNCHANGED <<formBusinessId, formDateStart, formDateEnd>>

SetBusinessId(inputs) ==
    \E v \in inputs :
        /\ v # formBusinessId
        /\ formBusinessId' = v
        /\ formErrors' = EmptyObject
        /\ formLastSubmit' = NotCalled
        /\ UNCHANGED <<formLocation, formDateStart, formDateEnd>>

SetRegistrationDateStart(inputs) ==
    \E v \in inputs :
        /\ v # formDateStart
        /\ formDateStart' = v
        /\ formErrors' = EmptyObject
        /\ formLastSubmit' = NotCalled
        /\ UNCHANGED <<formLocation, formBusinessId, formDateEnd>>

SetRegistrationDateEnd(inputs) ==
    \E v \in inputs :
        /\ v # formDateEnd
        /\ formDateEnd' = v
        /\ formErrors' = EmptyObject
        /\ formLastSubmit' = NotCalled
        /\ UNCHANGED <<formLocation, formBusinessId, formDateStart>>

\* Lines 72-122: handleSubmit, as far as the form's own state goes.
HandleSubmit ==
    /\ formErrors' =
          ValidationErrors(formLocation, formBusinessId, formDateStart, formDateEnd)
    /\ formLastSubmit' =
          SubmitRecord(formLocation, formBusinessId, formDateStart, formDateEnd)
    /\ UNCHANGED formFields

InitForm ==
    /\ FormIdle
    /\ FormatIdle
    /\ TransformIdle
    /\ RecordIdle
    /\ FetchIdle
    /\ AppIdle

NextForm ==
    \/ (SetLocation(LocationInputs) /\ UNCHANGED <<fmtVars, trVars, rcVars, fcVars, appVars>>)
    \/ (SetBusinessId(BusinessIdInputs) /\ UNCHANGED <<fmtVars, trVars, rcVars, fcVars, appVars>>)
    \/ (SetRegistrationDateStart(DateInputs) /\ UNCHANGED <<fmtVars, trVars, rcVars, fcVars, appVars>>)
    \/ (SetRegistrationDateEnd(DateInputs) /\ UNCHANGED <<fmtVars, trVars, rcVars, fcVars, appVars>>)
    \/ (HandleSubmit /\ UNCHANGED <<fmtVars, trVars, rcVars, fcVars, appVars>>)

SpecForm == InitForm /\ [][NextForm]_vars

\* ------------------------------------------- specification: the application

\* What the user types into the form of the running application.
\* How the user fills in the form before submitting it, as <<location,
\* businessId, registrationDateStart, registrationDateEnd>>: nothing, a town, an
\* identifier with both dates, a town with a malformed identifier.
AppFormSamples ==
    {<<"", "", Null, Null>>,
     <<"Helsinki", "", Null, Null>>,
     <<"", "1234567-8", Date(2020, 1, 5), Date(2020, 1, 5)>>,
     <<"Helsinki", "12345", Null, Null>>}

\* What the upstream API gives back to a request of the application: nothing,
\* an error status, a page of one company out of 250, no company at all.
AppResponseSamples ==
    {NetworkError,
     HttpResponse(500, [text |-> "Internal Server Error"]),
     HttpResponse(200, [json |-> Obj(("companies" :> Arr(<<FullCompany>>))
                                         @@ ("totalResults" :> Num(250)))]),
     HttpResponse(200, [json |-> Obj(("companies" :> Arr(<< >>))
                                         @@ ("totalResults" :> Num(0)))])}

InitApp ==
    /\ AppIdle
    /\ FormIdle
    /\ FormatIdle
    /\ TransformIdle
    /\ RecordIdle
    /\ FetchIdle

\* App is mounted: useCompanies(searchParams) runs for the initial criteria.
Mount ==
    /\ ~mounted
    /\ mounted' = TRUE
    /\ queries' = ObservedQueries(queries, searchParams)
    /\ requests' = ObservedRequests(queries, requests, searchParams)
    /\ UNCHANGED <<searchParams, selectedCompany, searches, refetches, formVars>>

\* The user fills in the form and submits it (the button is disabled while
\* loading, CompanySearch lines 200-208): the onChange handlers, handleSubmit,
\* and through onSearch the handleSearch of App lines 26-33, then the hook with
\* the new criteria. The form's own steps are those of SpecForm.
SubmitSearch ==
    /\ mounted
    /\ ~loading
    /\ searches < MaxSearches
    /\ \E form \in AppFormSamples :
          LET loc == form[1]
              id == form[2]
              start == form[3]
              end == form[4]
          IN
          /\ formLocation' = loc
          /\ formBusinessId' = id
          /\ formDateStart' = start
          /\ formDateEnd' = end
          /\ formErrors' = ValidationErrors(loc, id, start, end)
          /\ formLastSubmit' = SubmitRecord(loc, id, start, end)
          /\ IF SubmitPasses(loc, id, start, end)
             THEN LET params == handleSearchParams(SubmitParams(loc, id, start, end))
                  IN  /\ searchParams' = params
                      /\ selectedCompany' = Null
                      /\ queries' = ObservedQueries(queries, params)
                      /\ requests' = ObservedRequests(queries, requests, params)
                      /\ searches' = searches + 1
             ELSE UNCHANGED <<searchParams, selectedCompany, queries, requests,
                              searches>>
    /\ UNCHANGED <<mounted, refetches>>

\* The user clicks a pagination button: handleChangePage of part_000 lines
\* 87-95, handlePageChange of App lines 35-37, then the hook.
ChangePage ==
    /\ TableRendered
    /\ searches < MaxSearches
    /\ \E newPage \in PaginationTargets(searchResults.totalResults,
                                        searchResults.currentPage,
                                        searchParams["maxResults"]) :
          LET params == handleChangePageParams(searchParams, newPage)
          IN  /\ searchParams' = params
              /\ queries' = ObservedQueries(queries, params)
              /\ requests' = ObservedRequests(queries, requests, params)
    /\ searches' = searches + 1
    /\ UNCHANGED <<mounted, selectedCompany, refetches, formVars>>

\* The user opens the details of a row: handleViewDetails of part_000 lines
\* 98-104, handleCompanySelect of App lines 39-41.
SelectCompany ==
    /\ TableRendered
    /\ \E i \in 1..Len(companies) : selectedCompany' = companies[i]
    /\ UNCHANGED <<mounted, searchParams, queries, requests, searches, refetches,
                   formVars>>

\* The network comes back after the data of the observed query has gone stale
\* (older than the staleTime of useCompanies line 10): refetchOnReconnect, which
\* useCompanies lines 6-13 leave at its default, sends the request of the current
\* criteria again. The data stays on display while the request is outstanding.
RefetchOnReconnect ==
    /\ HasQuery
    /\ queries[searchParams].status = "success"
    /\ ~queries[searchParams].fetching
    /\ refetches < MaxRefetches
    /\ queries' = [queries EXCEPT ![searchParams].fetching = TRUE]
    /\ requests' = requests \cup {searchParams}
    /\ refetches' = refetches + 1
    /\ UNCHANGED <<mounted, searchParams, selectedCompany, searches, formVars>>

\* QuerySettles storing the outcome in the query on display instead of the
\* query whose request it answers.
QuerySettlesIntoDisplayed ==
    /\ \E params \in DOMAIN queries, response \in AppResponseSamples :
          /\ queries[params].fetching
          /\ queries' =
                [p \in DOMAIN queries |->
                    IF p = searchParams
                    THEN SettledQuery(queries[p], params, response)
                    ELSE IF p = params
                    THEN [queries[p] EXCEPT !.fetching = FALSE]
                    ELSE queries[p]]
    /\ UNCHANGED <<mounted, searchParams, selectedCompany, requests, searches,
                   refetches, formVars>>

\* An outstanding request settles, with any of the sampled responses.
QuerySettles ==
    /\ \E params \in DOMAIN queries, response \in AppResponseSamples :
          /\ queries[params].fetching
          /\ queries' = [queries EXCEPT
                            ![params] = SettledQuery(queries[params], params, response)]
    /\ UNCHANGED <<mounted, searchParams, selectedCompany, requests, searches,
                   refetches, formVars>>

NextApp ==
    \/ (Mount /\ UNCHANGED <<fmtVars, trVars, rcVars, fcVars>>)
    \/ (SubmitSearch /\ UNCHANGED <<fmtVars, trVars, rcVars, fcVars>>)
    \/ (ChangePage /\ UNCHANGED <<fmtVars, trVars, rcVars, fcVars>>)
    \/ (SelectCompany /\ UNCHANGED <<fmtVars, trVars, rcVars, fcVars>>)
    \/ (RefetchOnReconnect /\ UNCHANGED <<fmtVars, trVars, rcVars, fcVars>>)
    \/ (QuerySettles /\ UNCHANGED <<fmtVars, trVars, rcVars, fcVars>>)

SpecApp == InitApp /\ [][NextApp]_vars

\* ================================================================ claims

\* ---- the formatter (SpecFormat)

\* `params.page || 0`, read off the criteria for the claims.
RequestedPage(params) == IF "page" \in DOMAIN params THEN params.page ELSE 0

\* C1: formatSearchParams returns a mapping whose keys are exactly totalResults,
\* page and the optional criteria that are set (non-empty), each with the
\* criteria's value; totalResults is "true" and page is the decimal string of
\* criteria.page + 1, a missing page counting as 0.
C1_FormatterMapping ==
    fmtResult # NotCalled =>
        /\ DOMAIN fmtResult =
              {"totalResults", "page"}
                  \cup {k \in OptionalKeys : k \in DOMAIN fmtParams /\ fmtParams[k] # ""}
        /\ \A k \in OptionalKeys \cap DOMAIN fmtResult : fmtResult[k] = fmtParams[k]
        /\ fmtResult["totalResults"] = "true"
        /\ fmtResult["page"] = ToString(RequestedPage(fmtParams) + 1)

\* C1 witness: criteria with only page = 9 set give exactly page "10" and the flag.
C1_Witness ==
    /\ fmtParams = ("page" :> 9)
    /\ fmtResult = [page |-> "10", totalResults |-> "true"]

\* ---- the normalizer (SpecTransform)

\* transformResponse has returned a page built from a `companies` sequence.
Normalized ==
    /\ trResult # NotCalled
    /\ trResult # Threw
    /\ IsObj(trData)
    /\ IsArr(Get(trData, "companies"))

\* The upstream entries of the payload, and the record produced at position i
\* (1-based here; the batch position of the code is i - 1).
Upstream == Get(trData, "companies").arr

Produced(i) == trResult.results[i]

\* The placeholder identifier of batch position i - 1, spelled out.
CompanyDash(i) == "company-" \o ToString(i - 1)

\* The identifier the claim C2 gives the entry at position i, whose identifier
\* field is bid; usable(v) says when a key's value qualifies.
IdByProbe(bid, i, usable(_)) ==
    IF IsStr(bid) THEN bid.str
    ELSE IF usable(Get(bid, "value")) THEN Get(bid, "value").str
    ELSE IF usable(Get(bid, "id")) THEN Get(bid, "id").str
    ELSE CompanyDash(i)

\* The identifier field is a plain string, a structured value, or absent.
CoveredId(bid) == IsStr(bid) \/ IsObj(bid) \/ IsArr(bid) \/ bid = Undefined

NonEmptyStr(v) == IsStr(v) /\ v.str # ""

\* C2 as stated: for every upstream object at position i (that normalizes at
\* all), a plain-string identifier is used verbatim; of a structured one the
\* `value` key is used when it holds a plain string, else the `id` key when it
\* holds a plain string; else, or when the field is absent, the identifier is
\* "company-<i>".
C2_IdentifierAsStated ==
    Normalized =>
        \A i \in 1..Len(Upstream) :
            LET bid == Get(Upstream[i], "businessId")
            IN  (IsObj(Upstream[i]) /\ CoveredId(bid) /\ ~TransformRaises(Upstream[i])) =>
                    Produced(i).businessId = IdByProbe(bid, i, IsStr)

\* C2 amended: the same, for every upstream object whose transformation does not
\* raise, with `value` and `id` used only when they hold a non-empty plain string.
C2_IdentifierResolution ==
    Normalized =>
        \A i \in 1..Len(Upstream) :
            LET bid == Get(Upstream[i], "businessId")
            IN  (IsObj(Upstream[i]) /\ CoveredId(bid) /\ ~TransformRaises(Upstream[i])) =>
                    Produced(i).businessId = IdByProbe(bid, i, NonEmptyStr)

\* C2 witness: at position 1, {value: "", id: "X"} resolves to "X", after an
\* entry at position 0 with businessId {} that resolves to "company-0".
C2_Witness ==
    /\ Normalized
    /\ Len(Upstream) = 2
    /\ Get(Upstream[1], "businessId") = Obj(EmptyObject)
    /\ Get(Upstream[2], "businessId") = Obj(("value" :> Str("")) @@ ("id" :> Str("X")))
    /\ Produced(1).businessId = "company-0"
    /\ Produced(2).businessId = "X"

\* The identifier at position i was synthesized by the fallback of lines 205-215:
\* it is the placeholder and the upstream field is not that very string.
Synthesized(i) ==
    /\ Produced(i).businessId = CompanyDash(i)
    /\ ~IsStr(Get(Upstream[i], "businessId"))

\* C3: a record whose identifier was synthesized as a placeholder has an
\* identifier that differs from that of every other record of the page.
C3_PlaceholderUnique ==
    Normalized =>
        \A i, j \in 1..Len(Upstream) :
            (i # j /\ Synthesized(i)) =>
                Produced(i).businessId # Produced(j).businessId

PageSize == IF trMaxResults = Undefined THEN 100 ELSE trMaxResults.num

\* C5: with a `companies` sequence, totalResults is the upstream totalResults
\* whenever upstream supplies it (0 included) and the number of records only when
\* upstream omits it; totalPages is the ceiling of totalResults / pageSize.
C5_TotalsFromUpstream ==
    Normalized =>
        /\ trResult.totalResults =
              IF Get(trData, "totalResults") # Undefined
              THEN Get(trData, "totalResults").num
              ELSE Len(trResult.results)
        /\ trResult.totalPages * PageSize >= trResult.totalResults
        /\ (trResult.totalPages - 1) * PageSize < trResult.totalResults
              \/ trResult.totalResults = 0

\* The payload with the entry at position i replaced by a well-formed company.
Repaired(i) ==
    Obj(("companies" :> Arr([Upstream EXCEPT ![i] = FullCompany])) @@ trData.obj)

\* C6: an entry at position i whose transformation raises yields the record
\* error-<i> / "Error processing data" with all other fields empty, and every
\* other position holds the record it holds when that entry is well-formed.
C6_FailureIsolated ==
    Normalized =>
        /\ Len(trResult.results) = Len(Upstream)
        /\ \A i \in 1..Len(Upstream) :
              TransformRaises(Upstream[i]) =>
                  /\ Produced(i) = [businessId |-> "error-" \o ToString(i - 1),
                                    name |-> "Error processing data",
                                    registrationDate |-> "",
                                    companyForm |-> "",
                                    location |-> "",
                                    endDate |-> Str(""),
                                    detailsUri |-> ""]
                  /\ \A j \in 1..Len(Upstream) :
                        j # i =>
                            Produced(j) =
                                transformResponse(Repaired(i), trPage, trMaxResults)
                                    .results[j]

\* C6 witness: in [well-formed, null] the null entry became error-1 and the
\* well-formed sibling kept its identifier and name.
C6_Witness ==
    /\ Normalized
    /\ Upstream = <<FullCompany, Null>>
    /\ Produced(2).businessId = "error-1"
    /\ Produced(2).name = "Error processing data"
    /\ Produced(1).businessId = "0112038-9"
    /\ Produced(1).name = "Nokia Oyj"
    /\ Produced(1).location = "02610 ESPOO"

\* ---- the orchestrator (SpecFetch)

\* The HTTP call failed: no response, a non-success status, or a body that is
\* not JSON.
HttpCallFailed ==
    \/ fcResponse = NetworkError
    \/ /\ fcResponse # NotCalled
       /\ fcResponse # NetworkError
       /\ \/ fcResponse.status < 200
          \/ fcResponse.status > 299
          \/ "text" \in DOMAIN fcResponse.body

\* C7: whatever the outcome of the HTTP call, the promise of fetchCompanies is
\* never rejected; after a network failure, a non-success status or a JSON-parse
\* failure it resolves to the empty ResultPage carrying the requested page (0
\* when unset).
C7_FetchNeverRejects ==
    fcPc = "settled" =>
        /\ "resolved" \in DOMAIN fcSettled
        /\ HttpCallFailed =>
              fcSettled = [resolved |->
                              [results |-> << >>,
                               totalResults |-> 0,
                               currentPage |-> RequestedPage(fcParams),
                               totalPages |-> 0]]

\* C7 witness: a 500 for page MaxPage resolves to the empty page MaxPage.
C7_Witness ==
    /\ fcPc = "settled"
    /\ fcResponse # NotCalled
    /\ fcResponse # NetworkError
    /\ fcResponse.status = 500
    /\ RequestedPage(fcParams) = MaxPage
    /\ fcSettled = Resolved(EmptyPage(MaxPage))

\* ---- the application (SpecApp)

\* The request of the current criteria has settled.
CurrentSettled ==
    /\ HasQuery
    /\ ~queries[searchParams].fetching
    /\ queries[searchParams].response # NotCalled

\* The response was a transport or HTTP failure.
TransportFailure(response) ==
    \/ response = NetworkError
    \/ /\ response # NetworkError
       /\ (response.status < 200 \/ response.status > 299)

\* C8: when the fetch for the current criteria ends in a transport or HTTP
\* failure the shell holds an empty ResultPage and a raised isError; when it
\* succeeds with zero results isError stays lowered.
C8_FailureRaisesErrorSignal ==
    CurrentSettled =>
        IF TransportFailure(queries[searchParams].response)
        THEN /\ searchResults # Undefined
             /\ searchResults.results = << >>
             /\ isError
        ELSE ~isError

\* Some optional criterion of `params` is set.
HasCriterion(params) ==
    \E k \in OptionalKeys : k \in DOMAIN params /\ params[k] # ""

\* C9: a request is sent to the upstream API only for criteria in which at
\* least one of businessId, location, registrationDateStart and
\* registrationDateEnd is set.
C9_RequestsCarryCriterion == \A params \in requests : HasCriterion(params)

\* ---- the form (SpecForm)

\* The letters of the Finnish alphabet: a-z, A-Z and the three with diacritics.
FinnishLetters ==
    AsciiLetters \cup {"ä", "ö", "å", "Ä", "Ö", "Å"}

\* s matches ^\d{7}-\d$, spelled out.
IsBusinessId(s) ==
    /\ Len(s) = 9
    /\ \A i \in {1, 2, 3, 4, 5, 6, 7, 9} :
          SubSeq(s, i, i) \in {"0", "1", "2", "3", "4", "5", "6", "7", "8", "9"}
    /\ SubSeq(s, 8, 8) = "-"

\* s contains at least one letter of `letters`.
HasLetter(s, letters) == \E i \in 1..Len(s) : SubSeq(s, i, i) \in letters

\* The four conditions of C10 on the fields of a submission.
FieldsPass(sub, letters) ==
    /\ sub.businessId # "" => IsBusinessId(sub.businessId)
    /\ sub.location # "" => HasLetter(sub.location, letters)
    /\ (sub.start # Null /\ sub.end # Null) =>
          ~IsBefore(sub.end, sub.start)
    /\ \/ sub.businessId # ""
       \/ sub.location # ""
       \/ sub.start # Null
       \/ sub.end # Null

\* The value of "YYYY-MM-DD" as the number YYYYMMDD.
RECURSIVE DigitsValue(_)
DigitsValue(text) ==
    IF Len(text) = 0 THEN 0
    ELSE 10 * DigitsValue(SubSeq(text, 1, Len(text) - 1))
            + (CHOOSE n \in 0..9 : ToString(n) = SubSeq(text, Len(text), Len(text)))

DateValue(text) ==
    DigitsValue(SubSeq(text, 1, 4) \o SubSeq(text, 6, 7) \o SubSeq(text, 9, 10))

\* The four conditions of C10 on the criteria passed to onSearch, with page 0
\* and page size 100.
CriteriaPass(params, letters) ==
    /\ "businessId" \in DOMAIN params => IsBusinessId(params["businessId"])
    /\ "location" \in DOMAIN params => HasLetter(params["location"], letters)
    /\ ({"registrationDateStart", "registrationDateEnd"} \subseteq DOMAIN params) =>
          DateValue(params["registrationDateStart"])
              <= DateValue(params["registrationDateEnd"])
    /\ OptionalKeys \cap DOMAIN params # {}
    /\ \A k \in OptionalKeys \cap DOMAIN params : params[k] # ""
    /\ params["page"] = 0
    /\ params["maxResults"] = 100

\* C10 with `letters` as the meaning of "letter".
SubmissionRule(letters) ==
    formLastSubmit # NotCalled =>
        /\ formLastSubmit.onSearch # NotCalled <=> FieldsPass(formLastSubmit, letters)
        /\ formLastSubmit.onSearch # NotCalled =>
              CriteriaPass(formLastSubmit.onSearch.params, letters)
        /\ formLastSubmit.onSearch = NotCalled =>
              /\ DOMAIN formLastSubmit.errors # {}
              /\ formErrors = formLastSubmit.errors

\* C10: a submission calls onSearch if and only if the business identifier, if
\* entered, matches ^\d{7}-\d$, the location, if entered, contains at least one
\* letter, the start date is not after the end date when both are entered, and at
\* least one criterion is entered; the criteria passed satisfy the same, with
\* page 0 and page size 100; otherwise nothing is passed and the errors are
\* recorded.
C10_SubmissionRule == SubmissionRule(FinnishLetters)

\* The same with "letter" read as the ASCII letters a-z, A-Z of the code's
\* pattern: this reading holds of every sampled submission.
SubmissionRuleAscii == SubmissionRule(AsciiLetters)

\* ---- the normalizer, the page as a whole (SpecTransform)

\* The record of upstream entry i is the one its own transformation gives at
\* batch position i - 1: its normalization, or the error placeholder of that
\* position when the transformation raises.
OwnRecord(i) ==
    IF TransformRaises(Upstream[i])
    THEN Produced(i).businessId = "error-" \o ToString(i - 1)
         /\ Produced(i).name = "Error processing data"
    ELSE Produced(i) = CompanyRecord(Upstream[i], i - 1)

\* C15: a `companies` sequence of length n gives exactly n records, the i-th
\* being the normalization (or the error placeholder) of the i-th upstream
\* entry: none is dropped, duplicated, merged or moved, failures included.
C15_OneRecordPerEntryInOrder ==
    Normalized =>
        /\ Len(trResult.results) = Len(Upstream)
        /\ \A i \in 1..Len(Upstream) : OwnRecord(i)

\* C15 witness: [raising entry, well-formed entry] gave error-0 followed by the
\* record of the well-formed entry.
C15_Witness ==
    /\ Normalized
    /\ Len(Upstream) = MaxBatch
    /\ TransformRaises(Upstream[1])
    /\ Upstream[MaxBatch] = FullCompany
    /\ Len(trResult.results) = MaxBatch
    /\ Produced(1).businessId = "error-0"
    /\ Produced(MaxBatch).businessId = "0112038-9"

\* ---- one object in several batches (SpecRecord)

\* The record the k-th call produced for rcObject.
RecordOf(k) == rcRuns[k].result.results[rcRuns[k].index + 1]

\* rcObject is a company object whose transformation does not raise.
Transforms == IsObj(rcObject) /\ ~TransformRaises(rcObject)

\* A record without the two fields that carry the identifier.
WithoutIdentifier(record) ==
    [record EXCEPT !.businessId = "", !.detailsUri = ""]

\* The identifier of the k-th record is one that spells the batch position.
Positional(k) ==
    RecordOf(k).businessId \in {"company-" \o ToString(rcRuns[k].index),
                                "error-" \o ToString(rcRuns[k].index)}

\* C11 as stated: any two calls of transformResponse with the same upstream
\* object in the batch (one whose transformation does not raise) yield identical
\* records for it, whatever its position and whatever the other entries in
\* either call.
C11_IdempotentAsStated ==
    \A a, b \in 1..Len(rcRuns) : Transforms => RecordOf(a) = RecordOf(b)

\* C11 amended: any two calls with the same upstream object yield records for it
\* that are identical when the object is at the same position in both, whatever
\* the other entries; at different positions they are identical except for the
\* identifier and the detail reference, and identical in these too unless the
\* identifier is the positional "company-<index>" or "error-<index>".
C11_IdempotentPerPosition ==
    \A a, b \in 1..Len(rcRuns) :
        /\ WithoutIdentifier(RecordOf(a)) = WithoutIdentifier(RecordOf(b))
        /\ rcRuns[a].index = rcRuns[b].index => RecordOf(a) = RecordOf(b)
        /\ ~Positional(a) => RecordOf(a) = RecordOf(b)

\* C11 witness: {} was fed at position 0 and then, behind a neighbour, at
\* position 1; it became company-0 and company-1.
C11_Witness ==
    /\ rcObject = Obj(EmptyObject)
    /\ Len(rcRuns) = 2
    /\ rcRuns[1].index = 0
    /\ rcRuns[2].index = 1
    /\ RecordOf(1).businessId = "company-0"
    /\ RecordOf(2).businessId = "company-1"
    /\ RecordOf(1).name = RecordOf(2).name

\* The registration date the claim C12 gives the field `reg`; usable(v) says
\* when a key's value qualifies.
RegistrationDateByProbe(reg, usable(_)) ==
    LET text == JsonStringify(reg)
    IN  IF IsStr(reg) THEN reg.str
        ELSE IF Nullish(reg) THEN ""
        ELSE IF usable(Get(reg, "value")) THEN Get(reg, "value").str
        ELSE IF usable(Get(reg, "registrationDate"))
        THEN Get(reg, "registrationDate").str
        ELSE IF text = "{}" \/ Includes(text, "[object Object]") THEN ""
        ELSE text

\* The registration date field is a plain string, a structured value, or absent.
CoveredDate(reg) == IsStr(reg) \/ IsObj(reg) \/ IsArr(reg) \/ Nullish(reg)

\* C12 as stated: the registration date is the field itself when it is a plain
\* string; of a structured value the `value` key when it holds a plain string,
\* else the nested `registrationDate` key when it holds a plain string, else the
\* serialization of the value, emptied when it is "{}" or contains
\* "[object Object]"; and the empty string when the field is absent.
C12_RegistrationDateAsStated ==
    \A k \in 1..Len(rcRuns) :
        LET reg == Get(rcObject, "registrationDate")
        IN  (Transforms /\ CoveredDate(reg)) =>
                RecordOf(k).registrationDate = RegistrationDateByProbe(reg, IsStr)

\* C12 amended: the same, with `value` and the nested `registrationDate` used
\* only when they hold a non-empty plain string.
C12_RegistrationDateResolution ==
    \A k \in 1..Len(rcRuns) :
        LET reg == Get(rcObject, "registrationDate")
        IN  (Transforms /\ CoveredDate(reg)) =>
                RecordOf(k).registrationDate = RegistrationDateByProbe(reg, NonEmptyStr)

\* C12 witness: {value: "", registrationDate: "2019-05-05"} resolved to the
\* nested date.
C12_Witness ==
    /\ Get(rcObject, "registrationDate") =
           Obj(("value" :> Str("")) @@ ("registrationDate" :> Str("2019-05-05")))
    /\ Len(rcRuns) > 0
    /\ RecordOf(1).registrationDate = "2019-05-05"

\* The entry carries no end date: the key is absent, null or empty.
NoEndDate(entry) == Get(entry, "endDate") \in {Undefined, Null, Str("")}

\* The least position of a non-empty set of positions.
Least(positions) == CHOOSE i \in positions : \A j \in positions : i <= j

\* A value as text, a missing one as the empty string.
TextOf(v) == IF Nullish(v) THEN "" ELSE JsString(v)

\* The entries of a field that holds a sequence; none otherwise.
EntriesOf(field) == IF IsArr(field) THEN field.arr ELSE << >>

\* The positions of the name variants tagged "FI" that have no end date.
CurrentFinnish(names) ==
    {i \in 1..Len(names) :
        Get(names[i], "language") = Str("FI") /\ NoEndDate(names[i])}

\* A name that is worth showing: present, and neither empty nor zero.
Shown(v) == v \notin {Undefined, Null, Str(""), Num(0)}

\* The display name the claim C13 gives the variants `names`.
NameAsStated(names) ==
    IF CurrentFinnish(names) # {}
    THEN TextOf(Get(names[Least(CurrentFinnish(names))], "name"))
    ELSE IF Len(names) > 0 THEN TextOf(Get(names[1], "name"))
    ELSE ""

\* The same, with a name that is not worth showing passed over.
NameAmended(names) ==
    IF /\ CurrentFinnish(names) # {}
       /\ Shown(Get(names[Least(CurrentFinnish(names))], "name"))
    THEN TextOf(Get(names[Least(CurrentFinnish(names))], "name"))
    ELSE IF Len(names) > 0 /\ Shown(Get(names[1], "name"))
    THEN TextOf(Get(names[1], "name"))
    ELSE ""

\* C13 as stated: the display name is the name of the first variant tagged "FI"
\* that has no end date, whenever there is one; otherwise the name of the first
\* variant, as a string; otherwise (no variants) the empty string.
C13_DisplayNameAsStated ==
    \A k \in 1..Len(rcRuns) :
        Transforms =>
            RecordOf(k).name = NameAsStated(EntriesOf(Get(rcObject, "names")))

\* C13 amended: the display name is the name of the first variant tagged "FI"
\* that has no end date, when there is one and its name is present and neither
\* empty nor zero; otherwise the name of the first variant, when that is present
\* and neither empty nor zero; otherwise the empty string. Names are shown as
\* strings.
C13_DisplayName ==
    \A k \in 1..Len(rcRuns) :
        Transforms =>
            RecordOf(k).name = NameAmended(EntriesOf(Get(rcObject, "names")))

\* C13 witness: of [SV "Nokia Abp", FI "Vanha Oy" (ended), FI "Nokia Oyj"] the
\* third variant was shown.
C13_Witness ==
    /\ IsArr(Get(rcObject, "names"))
    /\ Len(Get(rcObject, "names").arr) = 3
    /\ CurrentFinnish(Get(rcObject, "names").arr) = {3}
    /\ Len(rcRuns) > 0
    /\ RecordOf(1).name = "Nokia Oyj"

\* The positions of the addresses that have no end date.
CurrentAddresses(addresses) ==
    {i \in 1..Len(addresses) : NoEndDate(addresses[i])}

\* "<postCode> <city of the first post office>", trimmed, of one address.
LocationLabel(address) ==
    LET offices == EntriesOf(Get(address, "postOffices"))
        city == IF Len(offices) > 0 THEN Get(offices[1], "city") ELSE Undefined
    IN  Trim(TextOf(Get(address, "postCode")) \o " " \o TextOf(city))

SameButPage(before, after) ==
    /\ DOMAIN after = DOMAIN before \cup {"page"}
    /\ \A k \in DOMAIN before \ {"page"} : after[k] = before[k]

\* The step is a submission that reached handleSearch.
SearchStep == SubmitSearch /\ searches' = searches + 1

\* C16: every search sets the criteria to the submitted filters with page 0 and
\* clears the selected company, whatever page was shown; every pagination click
\* changes the page and nothing else: the filters, the page size and the
\* selected company stay as they were.
C16_SearchResetsPageChangeKeepsRest ==
    [][/\ SearchStep =>
            /\ SameButPage(formLastSubmit'.onSearch.params, searchParams')
            /\ searchParams'.page = 0
            /\ selectedCompany' = Null
       /\ ChangePage =>
            /\ SameButPage(searchParams, searchParams')
            /\ searchParams'.page # searchParams.page
            /\ selectedCompany' = selectedCompany]_vars

\* C16 witness: after a search for Helsinki a company was selected on page 0 and
\* the next page requested; the criteria are Helsinki, page 1, the selection is
\* kept and the request of page 1 is still outstanding.
C16_Witness ==
    /\ mounted
    /\ searchParams = [location |-> "Helsinki", page |-> 1, maxResults |-> 100]
    /\ selectedCompany # Null
    /\ loading

\* No request is outstanding.
AllSettled == \A params \in DOMAIN queries : ~queries[params].fetching

\* C17: the page on display is absent or is the one fetched for the current
\* criteria: it came from the query function called with these criteria, it is
\* what fetchCompanies makes of the response to that request, and its
\* currentPage is the page of the criteria; and once no request is outstanding
\* a page is on display.
C17_DisplayedPageIsOfCurrentCriteria ==
    mounted =>
        /\ searchResults # Undefined =>
              /\ queries[searchParams].fetchedFor = searchParams
              /\ Resolved(searchResults) =
                    fetchCompaniesSettle(searchParams, queries[searchParams].response)
              /\ searchResults.currentPage = searchParams.page
        /\ AllSettled => searchResults # Undefined

\* C17 witness: the first page was being fetched again when the user moved to
\* page 1; its response (no companies) came late, into its own query, and page 1
\* shows the company fetched for page 1.
C17_Witness ==
    /\ mounted
    /\ searches = 1
    /\ searchParams = [page |-> 1, maxResults |-> 100]
    /\ AllSettled
    /\ queries[InitialSearchParams].data.results = << >>
    /\ Len(searchResults.results) = 1
    /\ searchResults.currentPage = 1

====
